---- MODULE Spec2Model ----
(***************************************************************************)
(* Model of the NLLB translation + Tesseract OCR service.                  *)
(*   app/main.py              router registration, startup_event           *)
(*   app/state.py             shared handles                               *)
(*   app/model.py             translate_with_model                         *)
(*   app/routers/translate.py POST /translate-text                         *)
(*   app/routers/ocr.py       POST /ocr-translate (the fallback sweep)     *)
(*   app/routers/speech.py    POST /speech-to-text, /speech-translate      *)
(*                                                                         *)
(* The handlers are "async def" bodies without an await on anything but a  *)
(* file read, so the event loop runs one request at a time; pc is the      *)
(* position of the request being handled inside ocr_process.  Python's     *)
(* None is the string "None" for codes and the empty sequence for optional *)
(* values (Some(x) is <<x>>).  Texts are sequences of characters.          *)
(***************************************************************************)
EXTENDS Naturals, Sequences, FiniteSets

\* ---------------------------------------------------------------- bounds
\* Longest raw string the OCR engine or a client hands over.
MaxRawLen == 2

Chars == {" ", "a"}

RECURSIVE SeqsUpTo(_)
SeqsUpTo(n) ==
    IF n = 0 THEN {<<>>}
    ELSE LET shorter == SeqsUpTo(n - 1)
         IN  shorter \cup {Append(s, c) : s \in {t \in shorter : Len(t) = n - 1}, c \in Chars}

RawTexts == SeqsUpTo(MaxRawLen)

\* What one pytesseract.image_to_string call can do: raise, or return a string.
EngineOutcomes ==
    {[raised |-> TRUE, out |-> <<>>]} \cup {[raised |-> FALSE, out |-> s] : s \in RawTexts}

\* ------------------------------------------------------- python helpers
\* str.strip(): drop leading and trailing whitespace.
RECURSIVE LStrip(_)
LStrip(s) == IF s # <<>> /\ Head(s) = " " THEN LStrip(Tail(s)) ELSE s

RECURSIVE RStrip(_)
RStrip(s) ==
    IF s # <<>> /\ s[Len(s)] = " " THEN RStrip(SubSeq(s, 1, Len(s) - 1)) ELSE s

Strip(s) == RStrip(LStrip(s))

\* list(dict.fromkeys(xs)): first occurrences, in order.
RECURSIVE Dedupe(_)
Dedupe(xs) ==
    IF xs = <<>> THEN <<>>
    ELSE LET init == Dedupe(SubSeq(xs, 1, Len(xs) - 1))
             x    == xs[Len(xs)]
         IN  IF \E i \in 1..Len(init) : init[i] = x THEN init ELSE Append(init, x)

\* ------------------------------------------------------------- ocr.py
SCRIPT_MAP(s) ==
    CASE s = "Devanagari" -> "nep"
      [] s = "Sinhala"    -> "sin"
      [] s = "Latin"      -> "eng"
      [] OTHER            -> "eng"

SOURCE_LANG_TO_TESS == [ne |-> "nep", si |-> "sin", en |-> "eng"]

script_table_slip_mut == [nep |-> "Devanagari", sin |-> "Devanagari", eng |-> "Latin"]

TESS_TO_SCRIPT == [nep |-> "Devanagari", sin |-> "Sinhala", eng |-> "Latin"]

\* image_to_osd either raises or returns lines; detect_script returns the
\* value of the first line holding "Script", "Latin" when there is none,
\* when the call raises or when that line has no ":" (IndexError).
OsdOutcomes ==
    {[kind |-> k, script |-> "None"] : k \in {"raise", "no_script_line", "no_colon"}}
    \cup {[kind |-> "script", script |-> s] : s \in {"Devanagari", "Sinhala", "Latin", "Arabic"}}

detect_script(osd) == IF osd.kind = "script" THEN osd.script ELSE "Latin"

languages_all_mut(forced) ==
    Dedupe(<<forced>>
           \o (IF forced # "eng" THEN <<"eng">> ELSE <<>>)
           \o (IF forced # "nep" THEN <<"nep">> ELSE <<>>)
           \o (IF forced # "sin" THEN <<"sin">> ELSE <<>>))

\* languages_to_try as built from forced_lang.
CandidateLanguages(forced) ==
    Dedupe((IF forced # "None" THEN <<forced>> ELSE <<>>)
           \o (IF forced # "eng" THEN <<"eng">> ELSE <<>>)
           \o (IF forced \notin {"nep", "eng"} THEN <<"nep">> ELSE <<>>)
           \o (IF forced \notin {"sin", "eng"} THEN <<"sin">> ELSE <<>>))

psm_modes == <<"6", "3", "7", "11">>

orig_psm_modes_mut == <<"6", "3", "7", "11">>

\* the modes of the pass over the image that was not preprocessed
orig_psm_modes == <<"6", "3">>

\* ------------------------------------------------------------ model.py
lang_map(source_lang) ==
    CASE source_lang = "ne" -> "npi_Deva"
      [] source_lang = "si" -> "sin_Sinh"
      [] source_lang = "en" -> "eng_Latn"
      [] OTHER              -> "npi_Deva"

\* state.model_bundle: None, or the dict load_model returns.  Of the dict
\* only the tokenizer's src_lang / tgt_lang attributes ever change.
NoBundle == [loaded |-> FALSE, src_lang |-> "None", tgt_lang |-> "None"]

\* The tokenizer's language attributes as from_pretrained leaves them.
TokenizerDefaults == {"None", "eng_Latn"}

load_model(src0, tgt0) == [loaded |-> TRUE, src_lang |-> src0, tgt_lang |-> tgt0]

\* translate_with_model(bundle, text, source_lang).  The two attribute
\* assignments are plain writes to the tokenizer load_model returned (their
\* except clauses guard tokenizers without these attributes); gen_ok says
\* whether tokenizing, generate and decode returned.  The result is the
\* bundle as the call leaves it, and the translation or the exception.
translate_with_model(bundle, t, source_lang, gen_ok) ==
    LET src == lang_map(source_lang)
        tgt == "eng_Latn"
        b2  == [bundle EXCEPT !.src_lang = src, !.tgt_lang = tgt]
    IN  [bundle |-> b2,
         raised |-> ~gen_ok,
         value  |-> IF gen_ok THEN <<[src |-> b2.src_lang, text |-> t]>> ELSE <<>>]

\* -------------------------------------------------------------- main.py
\* The routers main.py passes to app.include_router.
included_routers == {"translate", "ocr"}

router_paths(r) ==
    CASE r = "translate" -> {"/translate-text"}
      [] r = "ocr"       -> {"/ocr-translate"}
      [] r = "speech"    -> {"/speech-to-text", "/speech-translate"}

routes == UNION {router_paths(r) : r \in included_routers}

\* ------------------------------------------------------------ the state
VARIABLES
    TESSERACT_AVAILABLE,  \* ocr.py module flag, set when the module is imported
    model_bundle,         \* state.model_bundle
    whisper_model,        \* state.whisper_model: "None" or "small"
    started,              \* startup_event has run
    pc,                   \* "idle", or the place in ocr_process
    request,              \* the request being handled / last handled
    script, forced_lang, detected_lang, languages_to_try, text,  \* ocr_process locals
    li, pi,               \* positions of the two nested for loops
    calls,                \* image_to_string calls of this request, in order
    osd_calls,            \* image_to_osd calls of this request
    last_result,          \* outcome of the latest image_to_string call
    nolang_raised,        \* the try block of the last resort raised
    model_calls,          \* translate_with_model calls of this request
    translate_outcome,    \* "None", "ok" or "raise"
    response              \* the answer to request; status 0 while there is none

globals == <<TESSERACT_AVAILABLE, model_bundle, whisper_model, started>>
locals  == <<script, forced_lang, detected_lang, languages_to_try, text, li, pi>>
history == <<calls, osd_calls, last_result, nolang_raised, model_calls, translate_outcome>>
vars    == <<globals, pc, request, locals, history, response>>

NoRequest ==
    [path |-> "None", image_base64 |-> "None", source_lang |-> "None",
     text |-> <<>>, input |-> "None"]

NoResponse ==
    [status |-> 0, detected_script |-> "None", detected_language |-> "None",
     extracted_text |-> <<>>, translated_text |-> <<>>]

HTTPException(code) == [NoResponse EXCEPT !.status = code]

NoResult == [raised |-> FALSE, out |-> <<>>]

Init ==
    /\ TESSERACT_AVAILABLE \in BOOLEAN
    /\ model_bundle = NoBundle
    /\ whisper_model \in {"None", "small"}
    /\ started = FALSE
    /\ pc = "idle"
    /\ request = NoRequest
    /\ script = "None" /\ forced_lang = "None" /\ detected_lang = "None"
    /\ languages_to_try = <<>> /\ text = <<>> /\ li = 0 /\ pi = 0
    /\ calls = <<>> /\ osd_calls = 0 /\ last_result = NoResult
    /\ nolang_raised = FALSE /\ model_calls = 0 /\ translate_outcome = "None"
    /\ response = NoResponse

\* main.py startup_event: load the model, None when loading raises.
startup_event ==
    /\ ~started
    /\ started' = TRUE
    /\ \/ \E src0 \in TokenizerDefaults, tgt0 \in TokenizerDefaults :
              model_bundle' = load_model(src0, tgt0)
       \/ model_bundle' = NoBundle
    /\ UNCHANGED <<TESSERACT_AVAILABLE, whisper_model, pc, request, locals, history, response>>

\* A handler starts with nothing of the previous request: locals are per call.
FreshHistory ==
    /\ calls' = <<>> /\ last_result' = NoResult
    /\ nolang_raised' = FALSE /\ model_calls' = 0 /\ translate_outcome' = "None"

FreshLocals ==
    /\ script' = "None" /\ forced_lang' = "None" /\ detected_lang' = "None"
    /\ languages_to_try' = <<>> /\ text' = <<>> /\ li' = 0 /\ pi' = 0

\* ------------------------------------------------- ocr.py: ocr_process
OcrPayloads == {"", "undecodable", "zero_bytes", "image"}
SourceLangs == {"None", "ne", "si", "en", "fr"}

OcrRequests ==
    {[NoRequest EXCEPT !.path = "/ocr-translate", !.image_base64 = b, !.source_lang = h] :
        b \in OcrPayloads, h \in SourceLangs}

check_payload_first_mut(available, image_base64) ==
    IF image_base64 = "" THEN 400
    ELSE IF ~available THEN 503
    ELSE IF image_base64 # "image" THEN 400
    ELSE 0

\* The checks before the sweep: the status of the HTTPException raised, 0
\* when the image was decoded and preprocessed.
ocr_entry_status(available, image_base64) ==
    IF ~available THEN 503
    ELSE IF image_base64 = "" THEN 400
    ELSE IF image_base64 # "image" THEN 400
    ELSE 0

skip_original_pass_mut(phase, t) ==
    IF t = <<>> THEN "nolang6" ELSE "translate"

\* Where ocr_process goes once a loop nest is over ("if not text:" twice).
after_sweep(phase, t) ==
    IF phase = "sweep1" /\ t = <<>> THEN "sweep2"
    ELSE IF t = <<>> THEN "nolang6"
    ELSE "translate"

\* ocr_process up to the first OCR call.
OcrBegin ==
    /\ started /\ pc = "idle" /\ "/ocr-translate" \in routes
    /\ \E req \in OcrRequests :
        LET status == ocr_entry_status(TESSERACT_AVAILABLE, req.image_base64)
            hinted == req.source_lang # "None" /\ req.source_lang \in DOMAIN SOURCE_LANG_TO_TESS
        IN  /\ request' = req
            /\ FreshHistory
            /\ IF status # 0
               THEN /\ response' = HTTPException(status)
                    /\ pc' = "idle"
                    /\ FreshLocals /\ osd_calls' = 0
               ELSE /\ response' = NoResponse
                    /\ IF hinted
                       THEN /\ forced_lang' = SOURCE_LANG_TO_TESS[req.source_lang]
                            /\ script' = TESS_TO_SCRIPT[forced_lang']
                            /\ osd_calls' = 0
                       ELSE \E osd \in OsdOutcomes :
                            /\ script' = detect_script(osd)
                            /\ forced_lang' = SCRIPT_MAP(script')
                            /\ osd_calls' = 1
                    /\ detected_lang' = IF forced_lang' # "None" THEN forced_lang' ELSE "eng"
                    /\ languages_to_try' = CandidateLanguages(forced_lang')
                    /\ text' = <<>>
                    /\ li' = 1 /\ pi' = 1
                    /\ pc' = "sweep1"
    /\ UNCHANGED globals

\* One image_to_string call as the history keeps it: the arguments, and
\* whether the call returned something other than whitespace.
Call(image, lang, psm, r) ==
    [image |-> image, lang |-> lang, psm |-> psm,
     inked |-> ~r.raised /\ \E i \in 1..Len(r.out) : r.out[i] # " "]

truthy_raw_mut(t) == TRUE

\* "if text and len(text) > 0"
truthy(t) == t # <<>> /\ Len(t) > 0

\* One turn of the inner loop of a loop nest: the call for
\* (languages_to_try[li], modes[pi]) on the given image, then the break /
\* continue logic up to the next call.
SweepStep(phase, image, modes) ==
    /\ pc = phase
    /\ \E r \in EngineOutcomes :
        LET lang == languages_to_try[li]
            psm  == modes[pi]
            t    == IF r.raised THEN text ELSE Strip(r.out)
            hit  == ~r.raised /\ truthy(t)
        IN  /\ calls' = Append(calls, Call(image, lang, psm, r))
            /\ last_result' = r
            /\ text' = t
            /\ detected_lang' = IF hit THEN lang ELSE detected_lang
            /\ script' = IF hit THEN TESS_TO_SCRIPT[lang] ELSE script
            /\ IF ~hit /\ pi < Len(modes)
               THEN \* next mode of the same language
                    /\ pi' = pi + 1 /\ li' = li /\ pc' = phase
               ELSE IF t = <<>> /\ li < Len(languages_to_try)
               THEN \* inner loop over, "if text: break" not taken
                    /\ li' = li + 1 /\ pi' = 1 /\ pc' = phase
               ELSE \* both loops left
                    /\ li' = 1 /\ pi' = 1 /\ pc' = after_sweep(phase, t)
    /\ UNCHANGED <<globals, request, forced_lang, languages_to_try, response,
                   osd_calls, nolang_raised, model_calls, translate_outcome>>

\* lines 157-172: the sweep over the preprocessed image
Sweep1Step == SweepStep("sweep1", "processed", psm_modes)

\* lines 175-188: the sweep over the image as decoded
Sweep2Step == SweepStep("sweep2", "original", orig_psm_modes)

final_after_blank_mut(site, raised, t) ==
    IF raised THEN (IF site = "final" THEN "translate" ELSE "final")
    ELSE IF site = "nolang6" /\ t = <<>> THEN "nolang3"
    ELSE IF site = "nolang3" /\ t = <<>> THEN "final"
    ELSE "translate"

\* lines 191-207: where control goes after the language-less call at site,
\* given whether it raised and the trimmed text it left.
last_resort_next(site, raised, t) ==
    IF raised THEN (IF site = "final" THEN "translate" ELSE "final")
    ELSE IF site = "nolang6" /\ t = <<>> THEN "nolang3"
    ELSE "translate"

last_resort_psm(site) ==
    CASE site = "nolang6" -> "6"
      [] site = "nolang3" -> "3"
      [] site = "final"   -> "None"

\* One language-less call on the preprocessed image.
LastResortStep(site) ==
    /\ pc = site
    /\ \E r \in EngineOutcomes :
        LET t == IF r.raised THEN text ELSE Strip(r.out)
            next == last_resort_next(site, r.raised, t)
            \* "if text:" is reached after a call that returned, unless
            \* the psm 3 call is still to come
            labelled == ~r.raised /\ next = "translate" /\ t # <<>>
        IN  /\ calls' = Append(calls, Call("processed", "None", last_resort_psm(site), r))
            /\ last_result' = r
            /\ text' = t
            /\ nolang_raised' = (nolang_raised \/ (r.raised /\ site # "final"))
            /\ detected_lang' = IF labelled THEN "eng" ELSE detected_lang
            /\ script' = IF labelled THEN "Latin" ELSE script
            /\ pc' = next
    /\ UNCHANGED <<globals, request, forced_lang, languages_to_try, li, pi, response,
                   osd_calls, model_calls, translate_outcome>>

NoLang6Step == LastResortStep("nolang6")
NoLang3Step == LastResortStep("nolang3")
FinalStep   == LastResortStep("final")
source_map == [nep |-> "ne", sin |-> "si", eng |-> "en"]

translate_if_loaded_mut(bundle, t) == bundle.loaded

\* "if state.model_bundle and text:"
translate_guard(bundle, t) == bundle.loaded /\ t # <<>>

\* lines 209-226: the optional translation and the response.
OcrRespond ==
    /\ pc = "translate"
    /\ \E gen_ok \in BOOLEAN :
        LET source_lang == IF detected_lang \in DOMAIN source_map
                           THEN source_map[detected_lang]
                           ELSE IF request.source_lang # "None" THEN request.source_lang
                           ELSE "ne"
            res == translate_with_model(model_bundle, text, source_lang,
                                        gen_ok)
        IN  IF translate_guard(model_bundle, text)
            THEN /\ model_bundle' = res.bundle
                 /\ model_calls' = model_calls + 1
                 /\ translate_outcome' = IF res.raised THEN "raise" ELSE "ok"
                 /\ response' = [status |-> 200, detected_script |-> script,
                                 detected_language |-> detected_lang,
                                 extracted_text |-> text,
                                 translated_text |-> res.value]
            ELSE /\ UNCHANGED <<model_bundle, model_calls, translate_outcome>>
                 /\ response' = [status |-> 200, detected_script |-> script,
                                 detected_language |-> detected_lang,
                                 extracted_text |-> text,
                                 translated_text |-> <<>>]
    /\ pc' = "idle"
    /\ UNCHANGED <<TESSERACT_AVAILABLE, whisper_model, started, request, locals,
                   calls, osd_calls, last_result, nolang_raised>>

\* -------------------------------------------- translate.py: translate_text
TranslateRequests ==
    {[NoRequest EXCEPT !.path = "/translate-text", !.text = t, !.source_lang = h] :
        t \in RawTexts, h \in SourceLangs}

empty_text_first_mut(bundle, t) ==
    IF Strip(t) = <<>> THEN 400
    ELSE IF ~bundle.loaded THEN 503
    ELSE 0

\* The checks before the model call: the status raised, 0 when none is.
translate_entry_status(bundle, t) ==
    IF ~bundle.loaded THEN 503
    ELSE IF Strip(t) = <<>> THEN 400
    ELSE 0

translate_text ==
    /\ started /\ pc = "idle" /\ "/translate-text" \in routes
    /\ \E req \in TranslateRequests :
        LET status == translate_entry_status(model_bundle, req.text)
        IN  /\ request' = req
            /\ FreshLocals
            /\ calls' = <<>> /\ osd_calls' = 0 /\ last_result' = NoResult
            /\ nolang_raised' = FALSE
            /\ IF status # 0
               THEN /\ response' = HTTPException(status)
                    /\ model_calls' = 0 /\ translate_outcome' = "None"
                    /\ UNCHANGED model_bundle
               ELSE \E gen_ok \in BOOLEAN :
                    LET res == translate_with_model(model_bundle, Strip(req.text),
                                   req.source_lang, gen_ok)
                    IN  /\ model_bundle' = res.bundle
                        /\ model_calls' = 1
                        /\ translate_outcome' = IF res.raised THEN "raise" ELSE "ok"
                        /\ response' = IF res.raised THEN HTTPException(500)
                                       ELSE [NoResponse EXCEPT !.status = 200,
                                                               !.translated_text = res.value]
    /\ pc' = "idle"
    /\ UNCHANGED <<TESSERACT_AVAILABLE, whisper_model, started>>

\* ------------------------------------------------------------ speech.py
SpeechInputs == {"none", "file", "audio_base64", "bad_base64"}

SpeechRequests ==
    {[NoRequest EXCEPT !.path = p, !.input = i] :
        p \in router_paths("speech"), i \in SpeechInputs}

WhisperLanguages == {"ne", "si", "en", "hi"}

\* speech_to_text / speech_translate with whisper_transcribe and
\* decode_base64_audio inlined: the response and the bundle they leave.
\* heard is the language Whisper reports, stt_ok whether transcribe returned.
speech_handler(path, input, whisper, bundle, heard, stt_ok, gen_ok) ==
    LET detected == IF path = "/speech-translate" /\ heard \notin {"ne", "si", "en"}
                    THEN "ne" ELSE heard
        res == translate_with_model(bundle, <<"a">>, detected, gen_ok)
        heard_reply == [NoResponse EXCEPT !.status = 200, !.detected_language = detected,
                                          !.extracted_text = <<"a">>]
    IN  IF input = "none" THEN [response |-> HTTPException(400), bundle |-> bundle]
        ELSE IF input = "bad_base64" THEN [response |-> HTTPException(400), bundle |-> bundle]
        ELSE IF whisper = "None" THEN [response |-> HTTPException(503), bundle |-> bundle]
        ELSE IF ~stt_ok THEN [response |-> HTTPException(500), bundle |-> bundle]
        ELSE IF path = "/speech-to-text" THEN [response |-> heard_reply, bundle |-> bundle]
        ELSE IF ~bundle.loaded THEN [response |-> HTTPException(503), bundle |-> bundle]
        ELSE IF res.raised THEN [response |-> HTTPException(500), bundle |-> res.bundle]
        ELSE [response |-> [heard_reply EXCEPT !.translated_text = res.value],
              bundle |-> res.bundle]

\* A POST to one of the speech paths, as the app routes it: the handler
\* when its router is included, the framework's 404 otherwise.
SpeechRequest ==
    /\ started /\ pc = "idle"
    /\ \E req \in SpeechRequests :
        /\ request' = req
        /\ IF req.path \in routes
           THEN \E heard \in WhisperLanguages, stt_ok \in BOOLEAN, gen_ok \in BOOLEAN :
                LET res == speech_handler(req.path, req.input, whisper_model, model_bundle,
                                          heard, stt_ok, gen_ok)
                IN  /\ response' = res.response
                    /\ model_bundle' = res.bundle
           ELSE /\ response' = HTTPException(404)
                /\ UNCHANGED model_bundle
    /\ FreshLocals /\ FreshHistory /\ osd_calls' = 0
    /\ pc' = "idle"
    /\ UNCHANGED <<TESSERACT_AVAILABLE, whisper_model, started>>

\* ---------------------------------------------------- the specification
Next ==
    \/ startup_event
    \/ OcrBegin
    \/ Sweep1Step
    \/ Sweep2Step
    \/ NoLang6Step
    \/ NoLang3Step
    \/ FinalStep
    \/ OcrRespond
    \/ translate_text
    \/ SpeechRequest

Spec == Init /\ [][Next]_vars

\* ------------------------------------------------------------ properties
OcrPath    == "/ocr-translate"
InOcr      == request.path = OcrPath
OcrReplied == InOcr /\ response.status # 0
\* the request got past the checks of lines 82-121
Swept      == InOcr /\ TESSERACT_AVAILABLE /\ request.image_base64 = "image"

AllWhitespace(s) == \A i \in 1..Len(s) : s[i] = " "
NoneInked == \A i \in 1..Len(calls) : ~calls[i].inked
FinalMade == \E i \in 1..Len(calls) : calls[i].lang = "None" /\ calls[i].psm = "None"

\* "for each language in list order, for each mode in order", as failed calls
Enumeration(image, langs, modes) ==
    [k \in 1..(Len(langs) * Len(modes)) |->
        [image |-> image,
         lang  |-> langs[((k - 1) \div Len(modes)) + 1],
         psm   |-> modes[((k - 1) % Len(modes)) + 1],
         inked |-> FALSE]]

IsPrefix(s, t) == Len(s) <= Len(t) /\ \A i \in 1..Len(s) : s[i] = t[i]

WithLanguage(c) == c.image = "processed" /\ c.lang # "None"

\* C1: the calls with a language on the preprocessed image follow the
\* enumeration languages x (6, 3, 7, 11) pair by pair; a call that raised or
\* returned whitespace is followed by the next pair (the sweep is left only
\* after a non-blank result or after the last pair), and the first call with
\* a non-blank trimmed result is the last OCR call of the request.
C1_SweepOrder ==
    InOcr =>
        LET done == SelectSeq(calls, WithLanguage)
            enum == Enumeration("processed", languages_to_try, <<"6", "3", "7", "11">>)
            bare == [i \in 1..Len(done) |-> [done[i] EXCEPT !.inked = FALSE]]
        IN  /\ IsPrefix(bare, enum)
            /\ \A i \in 1..Len(calls) : calls[i].inked => i = Len(calls)
            /\ pc = "sweep1" => calls = done /\ NoneInked
            /\ pc = "sweep1" => <<li, pi>> = <<(Len(done) \div 4) + 1, (Len(done) % 4) + 1>>
            /\ pc # "sweep1" /\ Swept => done # <<>> /\ (done[Len(done)].inked \/ bare = enum)

\* a later pair of the sweep succeeded with text that had to be trimmed
C1_Witness ==
    /\ InOcr /\ pc = "translate"
    /\ Len(calls) = 6 /\ calls[6].inked
    /\ calls[6].image = "processed" /\ calls[6].lang = languages_to_try[2] /\ calls[6].psm = "3"
    /\ last_result.out = <<" ", "a">>

\* C2 (as claimed): the candidate list is duplicate-free, starts with the
\* forced-or-detected language, has English next when that is not English,
\* and always holds all three supported languages.
C2_AllThree ==
    InOcr /\ forced_lang \in {"nep", "sin", "eng"} =>
        /\ \A i, j \in 1..Len(languages_to_try) :
               languages_to_try[i] = languages_to_try[j] => i = j
        /\ languages_to_try[1] = forced_lang
        /\ forced_lang # "eng" => languages_to_try[2] = "eng"
        /\ {languages_to_try[i] : i \in 1..Len(languages_to_try)} = {"nep", "sin", "eng"}

\* C2 (amended): the candidate list is duplicate-free and starts with the
\* forced-or-detected language f; for f = nep or sin it goes on with English
\* and then the remaining supported language, for f = eng it is [eng] alone.
C2_Candidates ==
    InOcr /\ forced_lang \in {"nep", "sin", "eng"} =>
        /\ \A i, j \in 1..Len(languages_to_try) :
               languages_to_try[i] = languages_to_try[j] => i = j
        /\ forced_lang = "nep" => languages_to_try = <<"nep", "eng", "sin">>
        /\ forced_lang = "sin" => languages_to_try = <<"sin", "eng", "nep">>
        /\ forced_lang = "eng" => languages_to_try = <<"eng">>

\* the script detector found Latin text and the sweep is about to start
C2_Witness ==
    /\ InOcr /\ pc = "sweep1" /\ calls = <<>>
    /\ osd_calls = 1 /\ forced_lang = "eng" /\ Len(languages_to_try) = 1

NoLang(psm) == [image |-> "processed", lang |-> "None", psm |-> psm, inked |-> FALSE]

\* The calls of a request in which nothing was read, by last-resort ending.
AllFailed(tail) ==
    Enumeration("processed", languages_to_try, <<"6", "3", "7", "11">>)
    \o Enumeration("original", languages_to_try, <<"6", "3">>)
    \o tail

LastResortTails ==
    {<<NoLang("6"), NoLang("None")>>,
     <<NoLang("6"), NoLang("3")>>,
     <<NoLang("6"), NoLang("3"), NoLang("None")>>}

\* C3: as long as every call came back blank or raised, the calls are the
\* whole preprocessed sweep, then the same languages with modes 6, 3 on the
\* original image, then language-less calls; the request then ends with a
\* 200 response with empty extracted_text, whatever raised.
C3_FallThrough ==
    Swept /\ NoneInked =>
        /\ \E tail \in LastResortTails : IsPrefix(calls, AllFailed(tail))
        /\ response.status # 0 =>
              /\ response.status = 200
              /\ response.extracted_text = <<>>
              /\ \E tail \in LastResortTails : calls = AllFailed(tail)

\* nothing was read, an engine error included, and the answer is 200 / ""
C3_Witness ==
    /\ OcrReplied /\ NoneInked /\ nolang_raised
    /\ Len(languages_to_try) = 3 /\ Len(calls) = 20
    /\ response.status = 200 /\ response.extracted_text = <<>>

\* C4 (as claimed): whenever nothing was read by any earlier step, the final
\* call without language and mode is made before the response is built.
C4_FinalAlways ==
    OcrReplied /\ response.status = 200 /\ response.extracted_text = <<>> => FinalMade

\* C4 (amended): when nothing was read by the sweeps, the final call without
\* language and mode is made exactly when the mode 6 or the mode 3
\* language-less call raised (not when both returned blank text); an engine
\* error in the final call is absorbed and the response carries empty text.
C4_FinalOnError ==
    Swept =>
        /\ FinalMade <=> (nolang_raised /\ pc \in {"translate", "idle"})
        /\ pc = "final" => nolang_raised /\ text = <<>>
        /\ OcrReplied /\ FinalMade /\ last_result.raised =>
              response.status = 200 /\ response.extracted_text = <<>>

\* the mode 3 call raised, the final call raised too, the answer is 200 / ""
C4_Witness ==
    /\ OcrReplied /\ FinalMade /\ last_result.raised
    /\ Len(calls) = 6 * Len(languages_to_try) + 3
    /\ response.status = 200 /\ response.extracted_text = <<>>

\* C5: a request makes at most 4L + 2L + 2 + 1 image_to_string calls for L
\* candidate languages, at most 21 in all, and none of them twice.
C5_CallBound ==
    InOcr =>
        /\ Len(calls) <= Len(languages_to_try) * 4 + Len(languages_to_try) * 2 + 2 + 1
        /\ Len(calls) <= 21
        /\ \A i, j \in 1..Len(calls) :
               [calls[i] EXCEPT !.inked = FALSE] = [calls[j] EXCEPT !.inked = FALSE] => i = j

\* the longest request: three languages, every call of the sweep made
C5_Witness == OcrReplied /\ Len(calls) = 21

\* C6: /translate-text answers 503 without a model whatever the text, else
\* 400 for text that is blank after trimming, else 500 when the model call
\* raises, else 200 with the translation; no model call for 503 and 400.
C6_TranslateText ==
    request.path = "/translate-text" /\ response.status # 0 =>
        IF ~model_bundle.loaded
        THEN response.status = 503 /\ model_calls = 0
        ELSE IF AllWhitespace(request.text)
        THEN response.status = 400 /\ model_calls = 0
        ELSE /\ model_calls = 1
             /\ translate_outcome = "raise" => response.status = 500
             /\ translate_outcome # "raise" =>
                   /\ response.status = 200
                   /\ Len(response.translated_text) = 1
                   /\ ~AllWhitespace(response.translated_text[1].text)

\* empty text and no model: 503, not 400
C6_Witness ==
    /\ request.path = "/translate-text" /\ request.text = <<>>
    /\ ~model_bundle.loaded /\ response.status = 503

\* C7: without the OCR engine /ocr-translate answers 503 whatever the
\* payload and before any image_to_osd or image_to_string call; a request
\* whose image decodes gets an error response in no other case.
C7_EngineUnavailable ==
    InOcr =>
        /\ ~TESSERACT_AVAILABLE => pc = "idle" /\ calls = <<>> /\ osd_calls = 0
        /\ ~TESSERACT_AVAILABLE /\ response.status # 0 => response.status = 503
        /\ response.status \notin {0, 200} /\ request.image_base64 = "image" =>
              ~TESSERACT_AVAILABLE /\ response.status = 503

\* no engine and an empty payload: 503, not 400
C7_Witness ==
    /\ OcrReplied /\ ~TESSERACT_AVAILABLE
    /\ request.image_base64 = "" /\ response.status = 503

\* C8: translated_text is present only with a model, non-empty extracted
\* text and a translation call that returned; with empty text the model is
\* not called; when the call raises the response is 200 with the script,
\* language and text of the OCR result and no translated_text.
C8_OptionalTranslation ==
    OcrReplied =>
        /\ response.translated_text # <<>> =>
              /\ response.status = 200 /\ model_bundle.loaded
              /\ ~AllWhitespace(response.extracted_text) /\ translate_outcome = "ok"
        /\ response.extracted_text = <<>> => model_calls = 0
        /\ translate_outcome = "raise" =>
              /\ response.status = 200
              /\ response.translated_text = <<>>
              /\ response.detected_script = script
              /\ response.detected_language = detected_lang
              /\ response.extracted_text = text /\ text # <<>>

\* text was read, the translation raised, the OCR result is answered
C8_Witness ==
    /\ OcrReplied /\ translate_outcome = "raise" /\ model_calls = 1
    /\ response.status = 200 /\ response.extracted_text # <<>>

\* C9: a POST to a speech path without file and audio_base64 is answered
\* 400; with an input and no speech model (for /speech-translate: no
\* translation model) it is answered 503.
C9_SpeechErrors ==
    request.path \in {"/speech-to-text", "/speech-translate"} /\ response.status # 0 =>
        /\ request.input = "none" => response.status = 400
        /\ request.input \in {"file", "audio_base64"} /\ whisper_model = "None" =>
              response.status = 503
        /\ request.input \in {"file", "audio_base64"} /\ request.path = "/speech-translate"
              /\ ~model_bundle.loaded => response.status \in {500, 503}

\* C10: once the service has started, no step of a request changes the
\* shared model bundle, the tokenizer's language settings included.
C10_BundleReadOnly == [][started => model_bundle' = model_bundle]_vars

\* C11: when the response carries non-empty extracted_text, that text came
\* from the last OCR call of the request; detected_language is that call's
\* language (eng for a call without a language) and detected_script is
\* Devanagari for nep, Sinhala for sin, Latin for eng, whatever the hint
\* and the script detector said.
C11_DetectedFollowsAttempt ==
    OcrReplied /\ response.extracted_text # <<>> =>
        /\ calls # <<>>
        /\ LET c    == calls[Len(calls)]
               lang == IF c.lang = "None" THEN "eng" ELSE c.lang
           IN  /\ c.inked
               /\ response.detected_language = lang
               /\ lang = "nep" => response.detected_script = "Devanagari"
               /\ lang = "sin" => response.detected_script = "Sinhala"
               /\ lang = "eng" => response.detected_script = "Latin"
               /\ lang \in {"nep", "sin", "eng"}

\* the hint said Nepali, the text was read as Sinhala on the original image
C11_Witness ==
    /\ OcrReplied /\ response.extracted_text # <<>>
    /\ request.source_lang = "ne" /\ forced_lang = "nep"
    /\ calls[Len(calls)].lang = "sin" /\ calls[Len(calls)].image = "original"
    /\ response.detected_language = "sin" /\ response.detected_script = "Sinhala"

\* the detector said Arabic, a call without a language read the text
C11_WitnessNoLanguage ==
    /\ OcrReplied /\ response.extracted_text # <<>>
    /\ osd_calls = 1 /\ calls[Len(calls)].lang = "None"
    /\ response.detected_language = "eng" /\ response.detected_script = "Latin"
====
